---- MODULE Spec2Model ----
(***************************************************************************)
(* Physical expression codec of common/grpc: the conversion between the    *)
(* DataFusion physical expression tree (Arc<dyn PhysicalExpr>) and the     *)
(* protobuf message codec::PhysicalExprNode.                               *)
(*                                                                         *)
(*   parse_df_physical_expr   : tree -> wire   (the encoder)               *)
(*   parse_grpc_physical_expr : wire -> tree   (the decoder)               *)
(*                                                                         *)
(* Both are pure functions; the state machine is a caller that builds an   *)
(* expression (or receives a message), converts it, and converts the       *)
(* result back.                                                            *)
(***************************************************************************)
EXTENDS Integers, Sequences, FiniteSets, TLC

VARIABLES origin, df_expr, proto, wraps, grpc, df

vars == <<origin, df_expr, proto, wraps, grpc, df>>

(***************************************************************************)
(* Bounds of the model.                                                    *)
(***************************************************************************)
\* largest number of constructors the caller applies on top of the initial
\* expression or message
MaxWraps == 1
\* largest number of WHEN/THEN branches the caller gives one Case node
MaxBranches == 2

(***************************************************************************)
(* Option<T> and Result<T, Error>.                                         *)
(***************************************************************************)
None == <<>>
Some(x) == <<x>>
IsSome(o) == Len(o) > 0
Unwrap(o) == o[1]

Ok(v) == [ok |-> TRUE, val |-> v]
Err(e) == [ok |-> FALSE, err |-> e]

\* the Error variants the codec raises (crate::error)
EmptyPhysicalExpr(name) == [kind |-> "EmptyPhysicalExpr", name |-> name]
MissingField(field) == [kind |-> "MissingField", field |-> field]
UnsupportedBinaryOp(op) == [kind |-> "UnsupportedBinaryOp", op |-> op]
UnsupportedDfExpr(name) == [kind |-> "UnsupportedDfExpr", name |-> name]
NewCase == [kind |-> "NewCase"]

\* format!("{:?}", proto): the Debug rendering of a message, one per message
DebugFmt(p) == [fmt |-> "Debug", of |-> p]
\* df_expr.to_string(): the Display rendering of an expression
DisplayFmt(e) == [fmt |-> "Display", of |-> e]

(***************************************************************************)
(* Integers.  An index is a 64-bit pattern kept as four 16-bit limbs,      *)
(* least significant first.  `as` between unsigned widths keeps the low    *)
(* bits of the value and zero-fills the rest.                              *)
(***************************************************************************)
Cast(v, bits) == [i \in 1..4 |-> IF i * 16 <= bits THEN v[i] ELSE 0]

\* width of usize on the build target (x86_64 / aarch64)
UsizeBits == 64
U64Bits == 64

\* the cast on a target whose usize is 32 bits wide
AsUsize32(v) == Cast(v, 32)
AsUsize(v) == Cast(v, UsizeBits)
AsU64(v) == Cast(v, U64Bits)

(***************************************************************************)
(* datafusion::logical_plan::Operator.  OperatorTable are the variants     *)
(* from_proto_binary_op knows; the enum has further variants, of which     *)
(* OtherOperators is a sample.                                             *)
(***************************************************************************)
OperatorTable ==
    { "Operator::And", "Operator::Or", "Operator::Eq", "Operator::NotEq",
      "Operator::LtEq", "Operator::Lt", "Operator::Gt", "Operator::GtEq",
      "Operator::Plus", "Operator::Minus", "Operator::Multiply",
      "Operator::Divide", "Operator::Modulo", "Operator::Like",
      "Operator::NotLike" }

OtherOperators == { "Operator::RegexMatch", "Operator::RegexIMatch" }

Operator == OperatorTable \cup OtherOperators

\* format!("{:?}", op): the derived Debug of the enum prints the variant name
DebugOperator(op) ==
    CASE op = "Operator::And" -> "And"
      [] op = "Operator::Or" -> "Or"
      [] op = "Operator::Eq" -> "Eq"
      [] op = "Operator::NotEq" -> "NotEq"
      [] op = "Operator::LtEq" -> "LtEq"
      [] op = "Operator::Lt" -> "Lt"
      [] op = "Operator::Gt" -> "Gt"
      [] op = "Operator::GtEq" -> "GtEq"
      [] op = "Operator::Plus" -> "Plus"
      [] op = "Operator::Minus" -> "Minus"
      [] op = "Operator::Multiply" -> "Multiply"
      [] op = "Operator::Divide" -> "Divide"
      [] op = "Operator::Modulo" -> "Modulo"
      [] op = "Operator::Like" -> "Like"
      [] op = "Operator::NotLike" -> "NotLike"
      [] op = "Operator::RegexMatch" -> "RegexMatch"
      [] op = "Operator::RegexIMatch" -> "RegexIMatch"

\* the table with the LtEq arm returning Operator::Lt
from_proto_binary_op_lt(op) ==
    CASE op = "And" -> Ok("Operator::And")
      [] op = "Or" -> Ok("Operator::Or")
      [] op = "Eq" -> Ok("Operator::Eq")
      [] op = "NotEq" -> Ok("Operator::NotEq")
      [] op = "LtEq" -> Ok("Operator::Lt")
      [] op = "Lt" -> Ok("Operator::Lt")
      [] op = "Gt" -> Ok("Operator::Gt")
      [] op = "GtEq" -> Ok("Operator::GtEq")
      [] op = "Plus" -> Ok("Operator::Plus")
      [] op = "Minus" -> Ok("Operator::Minus")
      [] op = "Multiply" -> Ok("Operator::Multiply")
      [] op = "Divide" -> Ok("Operator::Divide")
      [] op = "Modulo" -> Ok("Operator::Modulo")
      [] op = "Like" -> Ok("Operator::Like")
      [] op = "NotLike" -> Ok("Operator::NotLike")
      [] OTHER -> Err(UnsupportedBinaryOp(op))

\* the table with a default operator in place of the error
from_proto_binary_op_default(op) ==
    CASE op = "And" -> Ok("Operator::And")
      [] op = "Or" -> Ok("Operator::Or")
      [] op = "Eq" -> Ok("Operator::Eq")
      [] op = "NotEq" -> Ok("Operator::NotEq")
      [] op = "LtEq" -> Ok("Operator::LtEq")
      [] op = "Lt" -> Ok("Operator::Lt")
      [] op = "Gt" -> Ok("Operator::Gt")
      [] op = "GtEq" -> Ok("Operator::GtEq")
      [] op = "Plus" -> Ok("Operator::Plus")
      [] op = "Minus" -> Ok("Operator::Minus")
      [] op = "Multiply" -> Ok("Operator::Multiply")
      [] op = "Divide" -> Ok("Operator::Divide")
      [] op = "Modulo" -> Ok("Operator::Modulo")
      [] op = "Like" -> Ok("Operator::Like")
      [] op = "NotLike" -> Ok("Operator::NotLike")
      [] OTHER -> Ok("Operator::Eq")

from_proto_binary_op(op) ==
    CASE op = "And" -> Ok("Operator::And")
      [] op = "Or" -> Ok("Operator::Or")
      [] op = "Eq" -> Ok("Operator::Eq")
      [] op = "NotEq" -> Ok("Operator::NotEq")
      [] op = "LtEq" -> Ok("Operator::LtEq")
      [] op = "Lt" -> Ok("Operator::Lt")
      [] op = "Gt" -> Ok("Operator::Gt")
      [] op = "GtEq" -> Ok("Operator::GtEq")
      [] op = "Plus" -> Ok("Operator::Plus")
      [] op = "Minus" -> Ok("Operator::Minus")
      [] op = "Multiply" -> Ok("Operator::Multiply")
      [] op = "Divide" -> Ok("Operator::Divide")
      [] op = "Modulo" -> Ok("Operator::Modulo")
      [] op = "Like" -> Ok("Operator::Like")
      [] op = "NotLike" -> Ok("Operator::NotLike")
      [] OTHER -> Err(UnsupportedBinaryOp(op))

(***************************************************************************)
(* The in-process expressions (Arc<dyn PhysicalExpr>).  Literal and        *)
(* NegativeExpr stand for the PhysicalExpr implementations the codec has   *)
(* no arm for.                                                             *)
(***************************************************************************)
DfColumn(name, index) == [type |-> "Column", name |-> name, index |-> index]
DfIsNullExpr(arg) == [type |-> "IsNullExpr", arg |-> arg]
DfIsNotNullExpr(arg) == [type |-> "IsNotNullExpr", arg |-> arg]
DfNotExpr(arg) == [type |-> "NotExpr", arg |-> arg]
DfBinaryExpr(l, op, r) == [type |-> "BinaryExpr", left |-> l, op |-> op, right |-> r]
CaseExpr(e, when_then_expr, else_expr) ==
    [type |-> "CaseExpr", expr |-> e, when_then_expr |-> when_then_expr,
     else_expr |-> else_expr]
Literal == [type |-> "Literal"]
NegativeExpr(arg) == [type |-> "NegativeExpr", arg |-> arg]

\* CaseExpr::try_new refuses an empty list of WHEN/THEN pairs
CaseExprTryNew(e, when_then_expr, else_expr) ==
    IF Len(when_then_expr) = 0
    THEN Err(NewCase)
    ELSE Ok(CaseExpr(e, when_then_expr, else_expr))

(***************************************************************************)
(* The wire messages (api::v1::codec).  expr_type is the oneof; every      *)
(* message-typed field is an Option.                                       *)
(***************************************************************************)
PhysicalExprNode(expr_type) == [expr_type |-> expr_type]
PhysicalColumn(name, index) == [tag |-> "Column", name |-> name, index |-> index]
PhysicalIsNull(expr) == [tag |-> "IsNullExpr", expr |-> expr]
PhysicalIsNotNull(expr) == [tag |-> "IsNotNullExpr", expr |-> expr]
PhysicalNot(expr) == [tag |-> "NotExpr", expr |-> expr]
PhysicalBinaryExprNode(l, r, op) == [tag |-> "BinaryExpr", l |-> l, r |-> r, op |-> op]
PhysicalWhenThen(when_expr, then_expr) == [when_expr |-> when_expr, then_expr |-> then_expr]
PhysicalCaseNode(expr, when_then_expr, else_expr) ==
    [tag |-> "Case", expr |-> expr, when_then_expr |-> when_then_expr,
     else_expr |-> else_expr]

(***************************************************************************)
(* grpc -> datafusion: parse_grpc_physical_expr and its helpers.           *)
(***************************************************************************)
RECURSIVE parse_grpc_physical_expr(_)
RECURSIVE parse_when_then_expr(_)
RECURSIVE parse_df_physical_expr(_)
RECURSIVE encode_when_then_expr(_)

\* the empty oneof reported as a missing field, without the message
EmptyExprTypeAsMissingField(p) == Err(MissingField("expr_type"))

\* proto.expr_type.as_ref().context(EmptyPhysicalExprSnafu { name: format!("{:?}", proto) })?
EmptyExprType(p) == Err(EmptyPhysicalExpr(DebugFmt(p)))

\* Option<Box<PhysicalExprNode>>: map, transpose()?, context(MissingField)
parse_required_physical_box_expr(expr) ==
    IF IsSome(expr)
    THEN parse_grpc_physical_expr(Unwrap(expr))
    ELSE Err(MissingField("expr"))

\* Option<PhysicalExprNode>: map, transpose()?, context(MissingField)
parse_required_physical_expr(expr) ==
    IF IsSome(expr)
    THEN parse_grpc_physical_expr(Unwrap(expr))
    ELSE Err(MissingField("expr"))

\* Option<_>: map(parse_grpc_physical_expr).transpose(); Ok(None) when absent
parse_optional_physical_expr(expr) ==
    IF IsSome(expr)
    THEN LET e == parse_grpc_physical_expr(Unwrap(expr))
         IN  IF e.ok THEN Ok(Some(e.val)) ELSE e
    ELSE Ok(None)

DecodeColumn(expr) == Ok(DfColumn(expr.name, AsUsize(expr.index)))

DecodeIsNullExpr(expr) ==
    LET a == parse_required_physical_box_expr(expr.expr)
    IN  IF a.ok THEN Ok(DfIsNullExpr(a.val)) ELSE a

DecodeIsNotNullExpr(expr) ==
    LET a == parse_required_physical_box_expr(expr.expr)
    IN  IF a.ok THEN Ok(DfIsNotNullExpr(a.val)) ELSE a

DecodeNotExpr(expr) ==
    LET a == parse_required_physical_box_expr(expr.expr)
    IN  IF a.ok THEN Ok(DfNotExpr(a.val)) ELSE a

\* the arm with the operator looked up before the children are decoded
DecodeBinaryExprOpFirst(expr) ==
    LET op == from_proto_binary_op(expr.op)
        l == parse_required_physical_box_expr(expr.l)
        r == parse_required_physical_box_expr(expr.r)
    IN  IF ~op.ok THEN op
        ELSE IF ~l.ok THEN l
        ELSE IF ~r.ok THEN r
        ELSE Ok(DfBinaryExpr(l.val, op.val, r.val))

DecodeBinaryExpr(expr) ==
    LET l == parse_required_physical_box_expr(expr.l)
        r == parse_required_physical_box_expr(expr.r)
        op == from_proto_binary_op(expr.op)
    IN  IF ~l.ok THEN l
        ELSE IF ~r.ok THEN r
        ELSE IF ~op.ok THEN op
        ELSE Ok(DfBinaryExpr(l.val, op.val, r.val))

\* when_then_expr.iter().map(..).collect::<Result<Vec<_>, Error>>()
parse_when_then_expr(when_then_expr) ==
    IF Len(when_then_expr) = 0
    THEN Ok(<<>>)
    ELSE LET e == Head(when_then_expr)
             when == parse_required_physical_expr(e.when_expr)
             then == parse_required_physical_expr(e.then_expr)
             rest == parse_when_then_expr(Tail(when_then_expr))
         IN  IF ~when.ok THEN when
             ELSE IF ~then.ok THEN then
             ELSE IF ~rest.ok THEN rest
             ELSE Ok(<<(<<when.val, then.val>>)>> \o rest.val)

DecodeCase(expr) ==
    LET e == parse_optional_physical_expr(expr.expr)
        when_then_expr == parse_when_then_expr(expr.when_then_expr)
        else_expr == parse_optional_physical_expr(expr.else_expr)
    IN  IF ~e.ok THEN e
        ELSE IF ~when_then_expr.ok THEN when_then_expr
        ELSE IF ~else_expr.ok THEN else_expr
        ELSE CaseExprTryNew(e.val, when_then_expr.val, else_expr.val)

parse_grpc_physical_expr(p) ==
    IF ~IsSome(p.expr_type)
    THEN EmptyExprType(p)
    ELSE LET expr == Unwrap(p.expr_type)
         IN  CASE expr.tag = "Column" -> DecodeColumn(expr)
               [] expr.tag = "IsNullExpr" -> DecodeIsNullExpr(expr)
               [] expr.tag = "IsNotNullExpr" -> DecodeIsNotNullExpr(expr)
               [] expr.tag = "NotExpr" -> DecodeNotExpr(expr)
               [] expr.tag = "BinaryExpr" -> DecodeBinaryExpr(expr)
               [] expr.tag = "Case" -> DecodeCase(expr)

(***************************************************************************)
(* datafusion -> grpc: parse_df_physical_expr, a chain of downcast_ref     *)
(* tests ending in the catch-all else.                                     *)
(***************************************************************************)
EncodeColumn(expr) ==
    Ok(PhysicalExprNode(Some(PhysicalColumn(expr.name, AsU64(expr.index)))))

EncodeIsNullExpr(expr) ==
    LET node == parse_df_physical_expr(expr.arg)
    IN  IF node.ok
        THEN Ok(PhysicalExprNode(Some(PhysicalIsNull(Some(node.val)))))
        ELSE node

EncodeIsNotNullExpr(expr) ==
    LET node == parse_df_physical_expr(expr.arg)
    IN  IF node.ok
        THEN Ok(PhysicalExprNode(Some(PhysicalIsNotNull(Some(node.val)))))
        ELSE node

EncodeNotExpr(expr) ==
    LET node == parse_df_physical_expr(expr.arg)
    IN  IF node.ok
        THEN Ok(PhysicalExprNode(Some(PhysicalNot(Some(node.val)))))
        ELSE node

EncodeBinaryExpr(expr) ==
    LET l == parse_df_physical_expr(expr.left)
        r == parse_df_physical_expr(expr.right)
    IN  IF ~l.ok THEN l
        ELSE IF ~r.ok THEN r
        ELSE Ok(PhysicalExprNode(Some(
                 PhysicalBinaryExprNode(Some(l.val), Some(r.val),
                                        DebugOperator(expr.op)))))

\* Option<_>: map(|expr| parse_df_physical_expr(..).map(Box::new)).transpose()
encode_optional_physical_expr(expr) ==
    IF IsSome(expr)
    THEN LET e == parse_df_physical_expr(Unwrap(expr))
         IN  IF e.ok THEN Ok(Some(e.val)) ELSE e
    ELSE Ok(None)

\* for (when, then) in expr.when_then_expr() { .. when_then_expr.push(..) }
encode_when_then_expr(when_then_expr) ==
    IF Len(when_then_expr) = 0
    THEN Ok(<<>>)
    ELSE LET when == parse_df_physical_expr(Head(when_then_expr)[1])
             then == parse_df_physical_expr(Head(when_then_expr)[2])
             rest == encode_when_then_expr(Tail(when_then_expr))
         IN  IF ~when.ok THEN when
             ELSE IF ~then.ok THEN then
             ELSE IF ~rest.ok THEN rest
             ELSE Ok(<<PhysicalWhenThen(Some(when.val), Some(then.val))>>
                     \o rest.val)

EncodeCase(expr) ==
    LET e == encode_optional_physical_expr(expr.expr)
        else_expr == encode_optional_physical_expr(expr.else_expr)
        when_then_expr == encode_when_then_expr(expr.when_then_expr)
    IN  IF ~e.ok THEN e
        ELSE IF ~else_expr.ok THEN else_expr
        ELSE IF ~when_then_expr.ok THEN when_then_expr
        ELSE Ok(PhysicalExprNode(Some(
                 PhysicalCaseNode(e.val, when_then_expr.val, else_expr.val))))

\* the catch-all letting an unknown expression through as an empty message
UnsupportedExprSilent(expr) == Ok(PhysicalExprNode(None))

\* UnsupportedDfExprSnafu { name: df_expr.to_string() }.fail()?
UnsupportedExpr(expr) == Err(UnsupportedDfExpr(DisplayFmt(expr)))

parse_df_physical_expr(expr) ==
    CASE expr.type = "Column" -> EncodeColumn(expr)
      [] expr.type = "IsNullExpr" -> EncodeIsNullExpr(expr)
      [] expr.type = "IsNotNullExpr" -> EncodeIsNotNullExpr(expr)
      [] expr.type = "NotExpr" -> EncodeNotExpr(expr)
      [] expr.type = "BinaryExpr" -> EncodeBinaryExpr(expr)
      [] expr.type = "CaseExpr" -> EncodeCase(expr)
      [] OTHER -> UnsupportedExpr(expr)

(***************************************************************************)
(* The caller.  It either builds an expression with the constructors of    *)
(* the expression types and encodes it (Spec), or receives a message and   *)
(* decodes it (SpecGrpc); a successful result is converted back.           *)
(***************************************************************************)
Zero == <<0, 0, 0, 0>>
Eleven == <<11, 0, 0, 0>>
\* 11, 0, 2^32 - 1, 2^32, 2^64 - 1
IndexSamples ==
    { Eleven, Zero, <<65535, 65535, 0, 0>>, <<0, 0, 1, 0>>,
      <<65535, 65535, 65535, 65535>> }

\* the operand every test of the codec uses: DfColumn::new("name", 11)
MockExpr == DfColumn("name", Eleven)

InitialExprs ==
    { DfColumn("name", i) : i \in IndexSamples }
        \cup { DfColumn("", Zero), Literal, NegativeExpr(MockExpr),
               DfNotExpr(Literal),
               DfBinaryExpr(Literal, "Operator::Eq", NegativeExpr(MockExpr)) }
        \cup { DfBinaryExpr(MockExpr, op, MockExpr) : op \in Operator }

NestedOps == { "Operator::Plus", "Operator::RegexMatch" }

\* the places of a Case node: base, else, and when/then of branch i
CasePlaces(n) ==
    { <<"base", 0>>, <<"else", 0>> }
        \cup { <<"when", i>> : i \in 1..n } \cup { <<"then", i>> : i \in 1..n }

PlaceColumn(place) == DfColumn(place[1], <<place[2], 0, 0, 0>>)

Building == grpc = None /\ df = None /\ wraps < MaxWraps

NewIsNullExpr ==
    /\ origin = "df" /\ Building
    /\ df_expr' = Some(DfIsNullExpr(Unwrap(df_expr)))
    /\ wraps' = wraps + 1
    /\ UNCHANGED <<origin, proto, grpc, df>>

NewIsNotNullExpr ==
    /\ origin = "df" /\ Building
    /\ df_expr' = Some(DfIsNotNullExpr(Unwrap(df_expr)))
    /\ wraps' = wraps + 1
    /\ UNCHANGED <<origin, proto, grpc, df>>

NewNotExpr ==
    /\ origin = "df" /\ Building
    /\ df_expr' = Some(DfNotExpr(Unwrap(df_expr)))
    /\ wraps' = wraps + 1
    /\ UNCHANGED <<origin, proto, grpc, df>>

NewNegativeExpr ==
    /\ origin = "df" /\ Building
    /\ df_expr' = Some(NegativeExpr(Unwrap(df_expr)))
    /\ wraps' = wraps + 1
    /\ UNCHANGED <<origin, proto, grpc, df>>

NewBinaryExpr ==
    /\ origin = "df" /\ Building
    /\ \E op \in NestedOps, other \in {MockExpr, Literal}, left \in BOOLEAN :
          df_expr' = Some(IF left
                          THEN DfBinaryExpr(Unwrap(df_expr), op, other)
                          ELSE DfBinaryExpr(other, op, Unwrap(df_expr)))
    /\ wraps' = wraps + 1
    /\ UNCHANGED <<origin, proto, grpc, df>>

NewCaseExpr ==
    /\ origin = "df" /\ Building
    /\ \E n \in 1..MaxBranches, has_base \in BOOLEAN, has_else \in BOOLEAN :
       \E place \in CasePlaces(n) :
          LET at(p) == IF p = place THEN Unwrap(df_expr) ELSE PlaceColumn(p)
              opt(p, has) == IF has THEN Some(at(p)) ELSE None
              e == opt(<<"base", 0>>, has_base)
              else_expr == opt(<<"else", 0>>, has_else)
              when_then_expr ==
                  [i \in 1..n |-> <<at(<<"when", i>>), at(<<"then", i>>)>>]
              case == CaseExprTryNew(e, when_then_expr, else_expr)
          IN  /\ place = <<"base", 0>> => has_base
              /\ place = <<"else", 0>> => has_else
              /\ case.ok
              /\ df_expr' = Some(case.val)
    /\ wraps' = wraps + 1
    /\ UNCHANGED <<origin, proto, grpc, df>>

\* the tokens from_proto_binary_op matches
Vocabulary ==
    { "And", "Or", "Eq", "NotEq", "LtEq", "Lt", "Gt", "GtEq", "Plus", "Minus",
      "Multiply", "Divide", "Modulo", "Like", "NotLike" }

\* op strings a peer can send that the table does not hold
UnknownTokens == { "Xor", "", "eq", "RegexMatch" }

NestedTokens == { "Plus", "Xor" }

MockNode == PhysicalExprNode(Some(PhysicalColumn("name", Eleven)))
EmptyNode == PhysicalExprNode(None)

InitialNodes ==
    { PhysicalExprNode(Some(PhysicalColumn("name", i))) : i \in IndexSamples }
        \cup { PhysicalExprNode(Some(PhysicalColumn("", Zero))), EmptyNode,
               PhysicalExprNode(Some(PhysicalIsNull(None))),
               PhysicalExprNode(Some(PhysicalIsNotNull(None))),
               PhysicalExprNode(Some(PhysicalNot(None))),
               PhysicalExprNode(Some(PhysicalNot(Some(EmptyNode)))) }
        \cup { PhysicalExprNode(Some(
                   PhysicalBinaryExprNode(Some(MockNode), Some(MockNode), op)))
               : op \in Vocabulary \cup UnknownTokens }
        \cup { PhysicalExprNode(Some(PhysicalBinaryExprNode(None, None, op)))
               : op \in NestedTokens }
        \cup { PhysicalExprNode(Some(PhysicalCaseNode(None,
                   <<PhysicalWhenThen(w, t)>>, None)))
               : w \in {None, Some(MockNode)}, t \in {None, Some(MockNode)} }

PlaceNode(place) ==
    PhysicalExprNode(Some(PhysicalColumn(place[1], <<place[2], 0, 0, 0>>)))

\* a malformed operand whose decode error tells the place it was put at
BadPlaceNode(place) ==
    PhysicalExprNode(Some(PhysicalBinaryExprNode(
        Some(MockNode), Some(MockNode), place[1] \o ToString(place[2]))))

NoPlace == <<"none", 0>>

\* the rank of a place in the order the decoder visits a Case of n branches
PlaceOrder(place, n) ==
    CASE place[1] = "base" -> 0
      [] place[1] = "when" -> 2 * place[2] - 1
      [] place[1] = "then" -> 2 * place[2]
      [] place[1] = "else" -> 2 * n + 1

\* the places visited right before and right after a place
Neighbours(place, n) ==
    { q \in CasePlaces(n) :
        PlaceOrder(q, n) - PlaceOrder(place, n) \in {-1, 1} }

NewPhysicalIsNull ==
    /\ origin = "grpc" /\ Building
    /\ proto' = Some(PhysicalExprNode(Some(PhysicalIsNull(proto))))
    /\ wraps' = wraps + 1
    /\ UNCHANGED <<origin, df_expr, grpc, df>>

NewPhysicalIsNotNull ==
    /\ origin = "grpc" /\ Building
    /\ proto' = Some(PhysicalExprNode(Some(PhysicalIsNotNull(proto))))
    /\ wraps' = wraps + 1
    /\ UNCHANGED <<origin, df_expr, grpc, df>>

NewPhysicalNot ==
    /\ origin = "grpc" /\ Building
    /\ proto' = Some(PhysicalExprNode(Some(PhysicalNot(proto))))
    /\ wraps' = wraps + 1
    /\ UNCHANGED <<origin, df_expr, grpc, df>>

NewPhysicalBinaryExprNode ==
    /\ origin = "grpc" /\ Building
    /\ \E op \in NestedTokens, left \in BOOLEAN,
          other \in {Some(MockNode), Some(EmptyNode), None} :
          proto' = Some(PhysicalExprNode(Some(
                       IF left
                       THEN PhysicalBinaryExprNode(proto, other, op)
                       ELSE PhysicalBinaryExprNode(other, proto, op))))
    /\ wraps' = wraps + 1
    /\ UNCHANGED <<origin, df_expr, grpc, df>>

NewPhysicalCaseNode ==
    /\ origin = "grpc" /\ Building
    /\ \E n \in 0..MaxBranches :
       \E place \in CasePlaces(n) :
       \E bad \in {NoPlace} \cup Neighbours(place, n) :
          LET at(p) == IF p = place THEN Unwrap(proto)
                       ELSE IF p = bad THEN BadPlaceNode(p)
                       ELSE PlaceNode(p)
              opt(p) == IF p \in {place, bad} THEN Some(at(p)) ELSE None
              e == opt(<<"base", 0>>)
              else_expr == opt(<<"else", 0>>)
              when_then_expr ==
                  [i \in 1..n |-> PhysicalWhenThen(Some(at(<<"when", i>>)),
                                                   Some(at(<<"then", i>>)))]
          IN  proto' = Some(PhysicalExprNode(Some(
                           PhysicalCaseNode(e, when_then_expr, else_expr))))
    /\ wraps' = wraps + 1
    /\ UNCHANGED <<origin, df_expr, grpc, df>>

ParseDfPhysicalExpr ==
    /\ grpc = None
    /\ \/ /\ origin = "df"
          /\ grpc' = Some(parse_df_physical_expr(Unwrap(df_expr)))
       \/ /\ origin = "grpc" /\ IsSome(df) /\ Unwrap(df).ok
          /\ grpc' = Some(parse_df_physical_expr(Unwrap(df).val))
    /\ UNCHANGED <<origin, df_expr, proto, wraps, df>>

ParseGrpcPhysicalExpr ==
    /\ df = None
    /\ \/ /\ origin = "grpc"
          /\ df' = Some(parse_grpc_physical_expr(Unwrap(proto)))
       \/ /\ origin = "df" /\ IsSome(grpc) /\ Unwrap(grpc).ok
          /\ df' = Some(parse_grpc_physical_expr(Unwrap(grpc).val))
    /\ UNCHANGED <<origin, df_expr, proto, wraps, grpc>>

Init ==
    /\ origin = "df"
    /\ df_expr \in { Some(e) : e \in InitialExprs }
    /\ proto = None
    /\ wraps = 0
    /\ grpc = None
    /\ df = None

InitGrpc ==
    /\ origin = "grpc"
    /\ df_expr = None
    /\ proto \in { Some(p) : p \in InitialNodes }
    /\ wraps = 0
    /\ grpc = None
    /\ df = None

Next ==
    \/ NewIsNullExpr
    \/ NewIsNotNullExpr
    \/ NewNotExpr
    \/ NewNegativeExpr
    \/ NewBinaryExpr
    \/ NewCaseExpr
    \/ ParseDfPhysicalExpr
    \/ ParseGrpcPhysicalExpr

NextGrpc ==
    \/ NewPhysicalIsNull
    \/ NewPhysicalIsNotNull
    \/ NewPhysicalNot
    \/ NewPhysicalBinaryExprNode
    \/ NewPhysicalCaseNode
    \/ ParseGrpcPhysicalExpr
    \/ ParseDfPhysicalExpr

Spec == Init /\ [][Next]_vars

SpecGrpc == InitGrpc /\ [][NextGrpc]_vars

(***************************************************************************)
(* Vocabulary of the properties.                                           *)
(***************************************************************************)
ClosedVariants ==
    { "Column", "IsNullExpr", "IsNotNullExpr", "NotExpr", "BinaryExpr", "CaseExpr" }

RECURSIVE SubExprs(_)
\* every node of an expression, the root included
SubExprs(e) ==
    {e} \cup
    CASE e.type \in {"IsNullExpr", "IsNotNullExpr", "NotExpr", "NegativeExpr"} ->
             SubExprs(e.arg)
      [] e.type = "BinaryExpr" -> SubExprs(e.left) \cup SubExprs(e.right)
      [] e.type = "CaseExpr" ->
             UNION { SubExprs(e.expr[i]) : i \in 1..Len(e.expr) }
             \cup UNION { SubExprs(e.else_expr[i]) : i \in 1..Len(e.else_expr) }
             \cup UNION { SubExprs(e.when_then_expr[i][1])
                          \cup SubExprs(e.when_then_expr[i][2])
                          : i \in 1..Len(e.when_then_expr) }
      [] OTHER -> {}

\* every node of the expression is of the closed variant set
Supported(e) == \A n \in SubExprs(e) : n.type \in ClosedVariants

Tagged(p, tag) == IsSome(p.expr_type) /\ Unwrap(p.expr_type).tag = tag

RECURSIVE SubNodes(_)
\* every message present in a message, the root included
SubNodes(p) ==
    {p} \cup
    IF ~IsSome(p.expr_type) THEN {}
    ELSE LET x == Unwrap(p.expr_type)
         IN  CASE x.tag \in {"IsNullExpr", "IsNotNullExpr", "NotExpr"} ->
                      UNION { SubNodes(x.expr[i]) : i \in 1..Len(x.expr) }
               [] x.tag = "BinaryExpr" ->
                      UNION { SubNodes(x.l[i]) : i \in 1..Len(x.l) }
                      \cup UNION { SubNodes(x.r[i]) : i \in 1..Len(x.r) }
               [] x.tag = "Case" ->
                      UNION { SubNodes(x.expr[i]) : i \in 1..Len(x.expr) }
                      \cup UNION { SubNodes(x.else_expr[i]) : i \in 1..Len(x.else_expr) }
                      \cup UNION { UNION { SubNodes(x.when_then_expr[i].when_expr[j])
                                           : j \in 1..Len(x.when_then_expr[i].when_expr) }
                                   : i \in 1..Len(x.when_then_expr) }
                      \cup UNION { UNION { SubNodes(x.when_then_expr[i].then_expr[j])
                                           : j \in 1..Len(x.when_then_expr[i].then_expr) }
                                   : i \in 1..Len(x.when_then_expr) }
               [] OTHER -> {}

\* the op strings of the BinaryExpr messages of a message
BinaryOps(p) ==
    { Unwrap(n.expr_type).op : n \in { m \in SubNodes(p) : Tagged(m, "BinaryExpr") } }

\* the caller's expression, what it was encoded to, what that was decoded to
Tree == Unwrap(df_expr)
Encoded == Unwrap(grpc)
Decoded == Unwrap(df)
\* the received message and its content
Msg == Unwrap(proto)
MsgExpr == Unwrap(Msg.expr_type)

(***************************************************************************)
(* C1  Round-trip identity: every expression made only of Column, IsNull,  *)
(* IsNotNull, Not, BinaryExpr and Case nodes encodes successfully, and the *)
(* message decodes successfully to an expression equal to the original.    *)
(***************************************************************************)
C1_RoundTrip ==
    (origin = "df" /\ Supported(Tree)) =>
        /\ IsSome(grpc) => Encoded.ok
        /\ IsSome(df) => Decoded.ok /\ Decoded.val = Tree

(***************************************************************************)
(* C2  Every BinaryExpr message the encoder produces carries one of the 15 *)
(* tokens of the operator table as its op, for every Operator value, so    *)
(* that the decoder's operator lookup accepts it.                          *)
(***************************************************************************)
C2_CanonicalToken ==
    (origin = "df" /\ IsSome(grpc) /\ Encoded.ok) =>
        \A op \in BinaryOps(Encoded.val) :
            op \in Vocabulary /\ from_proto_binary_op(op).ok

(***************************************************************************)
(* C3  Operator closure: a BinaryExpr message whose op is a token of the   *)
(* table and whose children decode, decodes to a BinaryExpr with the       *)
(* operator of that token, and encoding the result gives a BinaryExpr      *)
(* message with exactly the same token; two different tokens never decode  *)
(* to the same operator.                                                   *)
(***************************************************************************)
ValidChildren(x) ==
    /\ parse_required_physical_box_expr(x.l).ok
    /\ parse_required_physical_box_expr(x.r).ok

C3_OperatorClosure ==
    /\ \A s \in Vocabulary, t \in Vocabulary :
          s # t => from_proto_binary_op(s) # from_proto_binary_op(t)
    /\ (/\ origin = "grpc" /\ Tagged(Msg, "BinaryExpr")
        /\ MsgExpr.op \in Vocabulary /\ ValidChildren(MsgExpr)) =>
          /\ IsSome(df) =>
                /\ Decoded.ok
                /\ Decoded.val.type = "BinaryExpr"
                /\ Ok(Decoded.val.op) = from_proto_binary_op(MsgExpr.op)
          /\ IsSome(grpc) =>
                /\ Encoded.ok
                /\ Tagged(Encoded.val, "BinaryExpr")
                /\ Unwrap(Encoded.val.expr_type).op = MsgExpr.op

C3_Witness ==
    /\ origin = "grpc" /\ Tagged(Msg, "BinaryExpr") /\ MsgExpr.op = "LtEq"
    /\ IsSome(grpc) /\ Encoded.ok

(***************************************************************************)
(* C4  Fail-fast on missing field: a unary message without its child, or a *)
(* BinaryExpr message without its left or right child, fails to decode     *)
(* with MissingField naming the absent field (expr, l, r); a child that is *)
(* present and fails to decode gives the child's own error.                *)
(***************************************************************************)
C4_MissingFieldNamed ==
    (origin = "grpc" /\ IsSome(df) /\ IsSome(Msg.expr_type)) =>
        /\ (MsgExpr.tag \in {"IsNullExpr", "IsNotNullExpr", "NotExpr"}) =>
              IF ~IsSome(MsgExpr.expr)
              THEN Decoded = Err(MissingField("expr"))
              ELSE ~parse_grpc_physical_expr(Unwrap(MsgExpr.expr)).ok =>
                      Decoded = parse_grpc_physical_expr(Unwrap(MsgExpr.expr))
        /\ (MsgExpr.tag = "BinaryExpr") =>
              IF ~IsSome(MsgExpr.l)
              THEN Decoded = Err(MissingField("l"))
              ELSE IF ~parse_grpc_physical_expr(Unwrap(MsgExpr.l)).ok
              THEN Decoded = parse_grpc_physical_expr(Unwrap(MsgExpr.l))
              ELSE IF ~IsSome(MsgExpr.r)
              THEN Decoded = Err(MissingField("r"))
              ELSE ~parse_grpc_physical_expr(Unwrap(MsgExpr.r)).ok =>
                      Decoded = parse_grpc_physical_expr(Unwrap(MsgExpr.r))

(***************************************************************************)
(* C5  Rejection of unknown operator: a BinaryExpr message whose children  *)
(* decode and whose op is not a token of the table fails to decode with    *)
(* UnsupportedBinaryOp carrying exactly that op; no expression is returned.*)
(***************************************************************************)
C5_UnknownOperatorRejected ==
    (/\ origin = "grpc" /\ IsSome(df) /\ Tagged(Msg, "BinaryExpr")
     /\ ValidChildren(MsgExpr) /\ MsgExpr.op \notin Vocabulary) =>
        Decoded = Err(UnsupportedBinaryOp(MsgExpr.op))

C5_Witness ==
    /\ origin = "grpc" /\ IsSome(df) /\ Tagged(Msg, "BinaryExpr")
    /\ ValidChildren(MsgExpr) /\ MsgExpr.op = "eq"
    /\ ~Decoded.ok

(***************************************************************************)
(* C6  Case preservation: encoding a Case expression gives a Case message  *)
(* with as many branches, in the same order, and with base and else        *)
(* present exactly when the expression has them; decoding that message     *)
(* gives back the same base, the same branches in the same order and the   *)
(* same else.                                                              *)
(***************************************************************************)
EncodedPair(pair) ==
    PhysicalWhenThen(Some(parse_df_physical_expr(pair[1]).val),
                     Some(parse_df_physical_expr(pair[2]).val))

C6_CasePreserved ==
    (origin = "df" /\ Tree.type = "CaseExpr" /\ Supported(Tree)) =>
        /\ IsSome(grpc) =>
              /\ Encoded.ok
              /\ Tagged(Encoded.val, "Case")
              /\ LET x == Unwrap(Encoded.val.expr_type)
                 IN  /\ Len(x.when_then_expr) = Len(Tree.when_then_expr)
                     /\ \A i \in 1..Len(x.when_then_expr) :
                           x.when_then_expr[i] = EncodedPair(Tree.when_then_expr[i])
                     /\ IsSome(x.expr) <=> IsSome(Tree.expr)
                     /\ IsSome(x.else_expr) <=> IsSome(Tree.else_expr)
        /\ IsSome(df) =>
              /\ Decoded.ok
              /\ Decoded.val.type = "CaseExpr"
              /\ Decoded.val.when_then_expr = Tree.when_then_expr
              /\ Decoded.val.expr = Tree.expr
              /\ Decoded.val.else_expr = Tree.else_expr

(***************************************************************************)
(* C7  Unsupported-expression signalling: encoding fails exactly when some *)
(* node of the expression, at any depth, is of a variant outside the       *)
(* closed set; the error is UnsupportedDfExpr and carries the rendering of *)
(* a node that is itself of such a variant, never of a supported ancestor. *)
(***************************************************************************)
C7_UnsupportedSignalled ==
    (origin = "df" /\ IsSome(grpc)) =>
        /\ ~Encoded.ok <=> ~Supported(Tree)
        /\ ~Encoded.ok =>
              /\ Encoded.err.kind = "UnsupportedDfExpr"
              /\ \E n \in SubExprs(Tree) :
                    /\ n.type \notin ClosedVariants
                    /\ Encoded.err.name = DisplayFmt(n)

C7_Witness ==
    /\ origin = "df" /\ IsSome(grpc) /\ ~Encoded.ok
    /\ Tree.type = "CaseExpr"
    /\ IsSome(Tree.else_expr) /\ Unwrap(Tree.else_expr).type = "NotExpr"

(***************************************************************************)
(* C8  Empty expression rejection: a message with no variant set fails to  *)
(* decode with EmptyPhysicalExpr carrying the rendering of that message;   *)
(* when such a message is a present child at any depth the whole decode    *)
(* fails, and with no other defect in the message the error is that        *)
(* EmptyPhysicalExpr.                                                      *)
(***************************************************************************)
Untagged(p) == { n \in SubNodes(p) : ~IsSome(n.expr_type) }

\* no required field is absent, no op is unknown, no Case is without branch
NoOtherDefect(p) ==
    \A n \in SubNodes(p) \ Untagged(p) :
        LET x == Unwrap(n.expr_type)
        IN  CASE x.tag \in {"IsNullExpr", "IsNotNullExpr", "NotExpr"} -> IsSome(x.expr)
              [] x.tag = "BinaryExpr" ->
                     IsSome(x.l) /\ IsSome(x.r) /\ x.op \in Vocabulary
              [] x.tag = "Case" ->
                     /\ Len(x.when_then_expr) > 0
                     /\ \A i \in 1..Len(x.when_then_expr) :
                           /\ IsSome(x.when_then_expr[i].when_expr)
                           /\ IsSome(x.when_then_expr[i].then_expr)
              [] OTHER -> TRUE

C8_EmptyRejected ==
    (origin = "grpc" /\ IsSome(df)) =>
        /\ ~IsSome(Msg.expr_type) =>
              Decoded = Err(EmptyPhysicalExpr(DebugFmt(Msg)))
        /\ Untagged(Msg) # {} => ~Decoded.ok
        /\ (Untagged(Msg) # {} /\ NoOtherDefect(Msg)) =>
              \E n \in Untagged(Msg) :
                  Decoded = Err(EmptyPhysicalExpr(DebugFmt(n)))

C8_Witness ==
    /\ origin = "grpc" /\ IsSome(df) /\ Tagged(Msg, "Case")
    /\ NoOtherDefect(Msg)
    /\ Len(MsgExpr.when_then_expr) = 2
    /\ Tagged(Unwrap(MsgExpr.when_then_expr[2].then_expr), "NotExpr")
    /\ ~Decoded.ok /\ Decoded.err.kind = "EmptyPhysicalExpr"

(***************************************************************************)
(* C9  Column fidelity: encoding a Column copies its name and its index    *)
(* into the message with every bit of the index kept, and decoding a       *)
(* Column message gives a Column with the same name and the same index, so *)
(* that encode-then-decode returns exactly the original Column.            *)
(***************************************************************************)
C9_ColumnFidelity ==
    (origin = "df" /\ Tree.type = "Column") =>
        /\ IsSome(grpc) =>
              Encoded = Ok(PhysicalExprNode(Some(
                            PhysicalColumn(Tree.name, Tree.index))))
        /\ IsSome(df) => Decoded = Ok(DfColumn(Tree.name, Tree.index))

C9_Witness ==
    /\ origin = "df" /\ Tree = DfColumn("name", <<0, 0, 1, 0>>)
    /\ IsSome(df) /\ Decoded.ok

(***************************************************************************)
(* C10  First-failure propagation: decode returns the error of the first   *)
(* failing step in its order and nothing of later ones.  BinaryExpr: left  *)
(* child, right child, operator lookup.  Case: base, then for each branch  *)
(* in order its when and its then, then else; the Case is constructed only *)
(* when none of them failed.                                               *)
(***************************************************************************)
RECURSIVE BranchSteps(_)
BranchSteps(when_then_expr) ==
    IF Len(when_then_expr) = 0
    THEN <<>>
    ELSE <<parse_required_physical_expr(Head(when_then_expr).when_expr),
           parse_required_physical_expr(Head(when_then_expr).then_expr)>>
         \o BranchSteps(Tail(when_then_expr))

OptionalStep(expr) ==
    IF IsSome(expr) THEN <<parse_grpc_physical_expr(Unwrap(expr))>> ELSE <<>>

\* the results of the steps of decoding x, in the order claimed
Steps(x) ==
    CASE x.tag = "BinaryExpr" ->
             <<parse_required_physical_box_expr(x.l),
               parse_required_physical_box_expr(x.r),
               from_proto_binary_op(x.op)>>
      [] x.tag = "Case" ->
             OptionalStep(x.expr) \o BranchSteps(x.when_then_expr)
                 \o OptionalStep(x.else_expr)

Failing(steps) == { i \in 1..Len(steps) : ~steps[i].ok }

C10_FirstFailure ==
    (/\ origin = "grpc" /\ IsSome(df)
     /\ (Tagged(Msg, "BinaryExpr") \/ Tagged(Msg, "Case"))) =>
        LET steps == Steps(MsgExpr)
        IN  IF Failing(steps) # {}
            THEN \E i \in Failing(steps) :
                    /\ \A j \in Failing(steps) : i <= j
                    /\ Decoded = steps[i]
            ELSE Decoded.ok \/ Decoded.err = NewCase

C10_Witness ==
    /\ origin = "grpc" /\ IsSome(df) /\ Tagged(Msg, "Case")
    /\ LET steps == Steps(MsgExpr)
       IN  \E i \in Failing(steps), j \in Failing(steps) :
              /\ Len(MsgExpr.when_then_expr) > 0
              /\ i < j
              /\ steps[i] # steps[j]
              /\ steps[i].err.kind = "MissingField"
              /\ Decoded = steps[i]

====
